---- MODULE Spec2Model ----
(***************************************************************************)
(* Model of maas_automation: the retry executor (utils.retry), the state   *)
(* poller (utils.wait_for_state), the per-machine pipeline                 *)
(* (controller.Controller._execute_single_machine), the bond builder       *)
(* (network.NetworkManager.configure_bond_by_vlan) and the workflow engine *)
(* (controller.Controller.execute_workflow).                               *)
(*                                                                         *)
(* Time is counted in whole seconds.  time.sleep(s) advances the clock by  *)
(* s; a call of fn / check_fn takes no time.                               *)
(***************************************************************************)
EXTENDS Integers, Sequences, FiniteSets, TLC

VARIABLES
    \* ---- retry(fn, retries, delay, backoff, max_delay) : utils.py 9-44
    retries,        \* argument retries (0 = retry forever)
    delay,          \* argument delay
    backoff,        \* argument backoff
    max_delay,      \* argument max_delay
    attempt,        \* local attempt
    last,           \* local last: the exception caught most recently
    rpc,            \* "idle" | "call" | "returned" | "raised"
    raised,         \* the exception that propagates out of retry
    calls,          \* history: number of invocations of fn
    nsleeps,        \* history: number of time.sleep calls made by retry
    sleep_time,     \* local sleep_time of the latest sleep
    prev_sleep,     \* history: sleep_time of the sleep before the latest
    \* ---- wait_for_state(check_fn, target_states, timeout, poll_interval,
    \*                     error_states) : utils.py 47-110
    target_states,  \* argument target_states
    error_states,   \* local error_states (after the default of line 69)
    timeout,        \* argument timeout
    poll_interval,  \* argument poll_interval
    now,            \* time.time() - start
    elapsed,        \* local elapsed
    last_state,     \* local last_state ("None" before the first change)
    consecutive_errors, \* local consecutive_errors
    wpc,            \* "idle" | "loop" | "done"
    outcome,        \* how wait_for_state ended: [kind, state]
    reads,          \* history: what each invocation of check_fn produced
    log,            \* history: the states written by log.info of line 85
    wsleeps,        \* history: number of time.sleep calls made by the poller
    iter_slept,     \* history: the latest loop iteration ended in a sleep
    \* ---- Controller._execute_single_machine(machine_cfg, actions) :
    \*      controller.py 132-326
    actions,        \* argument actions, a list of action names
    cfg_hostname,   \* machine_cfg.get('hostname') ("None" when absent)
    remote_hostname,\* hostname the remote service stores for the machine
    ppc,            \* "idle" | "run" | "wait" | "done"
    pidx,           \* position in StageOrder of the stage reached
    system_id,      \* local system_id ("None" until stage 1 sets it)
    presult,        \* how the pipeline ended: [kind, value]
    trace,          \* history: the remote requests issued, in order
    failed_stage,   \* history: the stage whose exception left the pipeline
    ran,            \* history: the stages whose body was entered
    no_match,       \* history: the lookup found no machine
    waits,          \* history: one record per completed wait_for_state
    bonds_cfg,      \* len(bonds_cfg) as the bond stage read it (0 before)
    bond_tries,     \* history: the bonds the stage tried, and how each went
    \* ---- NetworkManager.configure_bond_by_vlan(system_id, bond_config) :
    \*      network.py 324-657
    interfaces,     \* local interfaces: the machine's interface_set
    vlan_ids,       \* local vlan_ids (bond_config['vlan_id'] as a list)
    bpc,            \* "idle" | "get" | "match" | "create" | "subnet" |
                    \* "vlans" | "returned" | "raised"
    match_i,        \* position of the matching loop of line 389
    matching_interfaces, \* local matching_interfaces
    links_examined, \* history: positions whose links the loop looked at
    interface_ids,  \* local interface_ids
    breqs,          \* history: the remote requests issued, in order
    vlan_idx,       \* local vlan_idx of the loop of line 595
    created_vlan_interfaces, \* local created_vlan_interfaces (their tags)
    berror,         \* the exception that left configure_bond_by_vlan
    \* ---- Controller.execute_workflow(cfg) : controller.py 32-114
    cfg_entry,      \* the 'parallel' entry of cfg: "absent" | "True" | "False"
    cfg_parallel,   \* local parallel = cfg.get('parallel', True)
    nmach,          \* len(machines_cfg)
    mstat,          \* per machine: "pending" | "queued" | "running" | how
                    \* its pipeline ended
    system_ids,     \* local system_ids; machine m has system_id m
    cfg_delete,     \* 'delete' in cfg.get('actions', [])
    started,        \* history: per machine, calls of its pipeline begun
    tally,          \* history: per machine, the verdicts logged for it
    wfpc,           \* "idle" | "run" | "returned" | "interrupted" | "raised"
    wfresult,       \* what execute_workflow gave its caller
    interrupted,    \* history: KeyboardInterrupt reached the main thread
    polls_after     \* history: per machine, poll ticks since the interrupt

rvars == <<retries, delay, backoff, max_delay, attempt, last, rpc, raised,
           calls, nsleeps, sleep_time, prev_sleep>>

wvars == <<target_states, error_states, timeout, poll_interval, now, elapsed,
           last_state, consecutive_errors, wpc, outcome, reads, log, wsleeps,
           iter_slept>>

pvars == <<actions, cfg_hostname, remote_hostname, ppc, pidx, system_id,
           presult, trace, failed_stage, ran, no_match, waits, bonds_cfg,
           bond_tries>>

bvars == <<interfaces, vlan_ids, bpc, match_i, matching_interfaces,
           links_examined, interface_ids, breqs, vlan_idx,
           created_vlan_interfaces, berror>>

\* The configuration execute_workflow reads on entry (lines 37-52).
wfcfg == <<cfg_entry, cfg_parallel, cfg_delete, nmach>>

fvars == <<wfcfg, mstat, started, tally, system_ids, wfpc, wfresult,
           interrupted, polls_after>>

vars == <<rvars, wvars, pvars, bvars, fvars>>

----------------------------------------------------------------------------
(* Bounds and program constants *)

\* Cap on the invocations of fn explored in one retry call.
MaxCalls == 1030

\* A Python float is an IEEE-754 double: 2.0 ** e raises OverflowError
\* ("Numerical result out of range") for every e >= 1024.
DBL_MAX_EXP == 1024

\* 1.0 ** e never overflows; 2.0 ** e overflows from e = DBL_MAX_EXP on.
Backoffs == {1, 2}
Delays == {1, 2}
MaxDelays == {1, 60}
\* retries = 0 is the unbounded mode.
RetriesSet == {0, 1, 2, 3, DBL_MAX_EXP + 2}

\* What fn raises: client.request raises a requests RequestException for a
\* network failure or a 5xx ("Transient") and for a 4xx ("Rejection").
FnErrors == {"Transient", "Rejection"}

NoExc == [call |-> 0, kind |-> "None"]
\* The exception object raised by the n-th invocation of fn.
Exc(n, k) == [call |-> n, kind |-> k]
OverflowError == [call |-> 0, kind |-> "OverflowError"]

Min(a, b) == IF a <= b THEN a ELSE b

----------------------------------------------------------------------------
(* retry: utils.py 9-44 *)

\* backoff ** e, as a float: does the power leave the range of a double?
\* Exact for the bases of Backoffs: 1.0 ** e = 1.0, and 2.0 ** e is finite
\* exactly for e < DBL_MAX_EXP.
PowOverflows(b, e) == b = 2 /\ e >= DBL_MAX_EXP

\* backoff ** e by repeated multiplication.  Once the running product has
\* reached cap it is returned as it is: the only use of the power is
\* min(delay * power, max_delay) with delay >= 1, and cap >= max_delay.
RECURSIVE PowUpTo(_, _, _, _)
PowUpTo(b, e, acc, cap) ==
    IF e = 0 \/ b = 1 \/ acc >= cap THEN acc
    ELSE PowUpTo(b, e - 1, acc * b, cap)

\* line 41: min(delay * (backoff ** (attempt - 1)), max_delay)
SleepTimeNoCap(d, b, a, m) == d * PowUpTo(b, a - 1, 1, m)
SleepTime(d, b, a, m) == Min(d * PowUpTo(b, a - 1, 1, m), m)

\* line 37: if retries > 0 and attempt >= retries
Exhausted(r, a) == r > 0 /\ a >= r

RetryStart ==
    /\ retries \in RetriesSet
    /\ delay \in Delays
    /\ backoff \in Backoffs
    /\ max_delay \in MaxDelays
    /\ attempt = 0
    /\ last = NoExc
    /\ rpc = "call"
    /\ raised = NoExc
    /\ calls = 0
    /\ nsleeps = 0
    /\ sleep_time = 0
    /\ prev_sleep = 0

\* lines 30-31: fn() returns, retry returns its result.
RetryReturn ==
    /\ rpc = "call"
    /\ calls < MaxCalls
    /\ calls' = calls + 1
    /\ rpc' = "returned"
    /\ UNCHANGED <<retries, delay, backoff, max_delay, attempt, last, raised,
                   nsleeps, sleep_time, prev_sleep>>
    /\ UNCHANGED <<wvars, pvars, bvars, fvars>>

\* lines 30-44: fn() raises an Exception of kind k; the except block runs.
RetryExcept(k) ==
    /\ rpc = "call"
    /\ calls < MaxCalls
    /\ calls' = calls + 1
    /\ last' = Exc(calls + 1, k)
    /\ attempt' = attempt + 1
    /\ IF Exhausted(retries, attempt')
       THEN \* line 39: raise last
            /\ rpc' = "raised"
            /\ raised' = last'
            /\ UNCHANGED <<nsleeps, sleep_time, prev_sleep>>
       ELSE IF PowOverflows(backoff, attempt' - 1)
       THEN \* line 41: backoff ** (attempt - 1) raises OverflowError
            /\ rpc' = "raised"
            /\ raised' = OverflowError
            /\ UNCHANGED <<nsleeps, sleep_time, prev_sleep>>
       ELSE \* lines 41-44: time.sleep(sleep_time), then the next iteration
            /\ sleep_time' = SleepTime(delay, backoff, attempt', max_delay)
            /\ prev_sleep' = sleep_time
            /\ nsleeps' = nsleeps + 1
            /\ rpc' = "call"
            /\ UNCHANGED raised
    /\ UNCHANGED <<retries, delay, backoff, max_delay>>
    /\ UNCHANGED <<wvars, pvars, bvars, fvars>>

RetryNext ==
    \/ RetryReturn
    \/ \E k \in FnErrors : RetryExcept(k)

----------------------------------------------------------------------------
(* wait_for_state: utils.py 47-110 *)

\* What check_fn (MachineManager.get_state) can return in the model.
States == {"COMMISSIONING", "TESTING", "READY", "FAILED_COMMISSIONING"}

\* What check_fn can raise: a RuntimeError (or a subclass of it), or any
\* other Exception (a requests exception, an AttributeError, ...).
CheckErrors == {"Exception", "RuntimeError"}

\* line 69-70: the default of error_states.
DefaultErrorStates == {"FAILED", "FAILED_COMMISSIONING", "FAILED_DEPLOYMENT",
                       "FAILED_RELEASING", "FAILED_DISK_ERASING"}

\* line 69: error_states = error_states or [...]; {} stands for None or [].
EffectiveErrorStates(arg) == IF arg = {} THEN DefaultErrorStates ELSE arg

\* The (target_states, error_states) arguments explored: the commission call
\* of machine.py 211-217, a call that leaves error_states to its default,
\* and a call whose two sets share a state.
PollArgs == { <<{"READY", "DEPLOYED"}, {"FAILED_COMMISSIONING", "FAILED"}>>,
              <<{"READY"}, {}>>,
              <<{"READY", "FAILED_COMMISSIONING"}, {"FAILED_COMMISSIONING"}>> }

MinTimeout == -1
MaxTimeout == 3
MaxPollInterval == 2

\* line 75
max_consecutive_errors == 5

NoOutcome == [kind |-> "None", state |-> "None"]
Reached(s) == [kind |-> "Reached", state |-> s]           \* line 90
ErrorState(s) == [kind |-> "ErrorState", state |-> s]     \* lines 93, 100
CheckRuntimeError == [kind |-> "CheckRuntimeError", state |-> "None"]
TooManyFailures == [kind |-> "TooManyFailures", state |-> "None"] \* line 106
TimedOut(s) == [kind |-> "TimedOut", state |-> s]         \* line 110

\* line 83: if current_state != last_state
LogsStateAlways(cur, prev) == TRUE
LogsState(cur, prev) == cur # prev

\* lines 88-93: the target test comes first, then the error test.
ClassifyNoTarget(s, targets, errors) ==
    IF s \in errors THEN "error" ELSE "other"
ClassifyErrorFirst(s, targets, errors) ==
    IF s \in errors THEN "error"
    ELSE IF s \in targets THEN "target"
    ELSE "other"
Classify(s, targets, errors) ==
    IF s \in targets THEN "target"
    ELSE IF s \in errors THEN "error"
    ELSE "other"

\* lines 98-100: except RuntimeError: raise
CatchesRuntimeErrorAsFailure == FALSE
ReraisesRuntimeError == TRUE

WaitStart ==
    /\ \E a \in PollArgs :
          /\ target_states = a[1]
          /\ error_states = EffectiveErrorStates(a[2])
    /\ timeout \in MinTimeout..MaxTimeout
    /\ poll_interval \in 1..MaxPollInterval
    /\ now = 0
    /\ elapsed = 0
    /\ last_state = "None"
    /\ consecutive_errors = 0
    /\ wpc = "loop"
    /\ outcome = NoOutcome
    /\ reads = <<>>
    /\ log = <<>>
    /\ wsleeps = 0
    /\ iter_slept = FALSE

\* line 105: if consecutive_errors >= max_consecutive_errors
TooManyNever(n) == FALSE
TooMany(n) == n >= max_consecutive_errors

\* lines 101-108: the generic handler, entered with the counter at ce.
ExceptException(ce) ==
    /\ consecutive_errors' = ce + 1
    /\ IF TooMany(ce + 1)
       THEN \* line 106
            /\ outcome' = TooManyFailures
            /\ wpc' = "done"
            /\ UNCHANGED <<now, wsleeps>>
            /\ iter_slept' = FALSE
       ELSE \* line 108: time.sleep(poll_interval); elapsed is not recomputed
            /\ now' = now + poll_interval
            /\ wsleeps' = wsleeps + 1
            /\ iter_slept' = TRUE
            /\ UNCHANGED <<outcome, wpc>>

\* line 78: while elapsed < timeout
LoopTestsAfterFirstRead == elapsed < timeout \/ reads = <<>>
LoopContinues == elapsed < timeout

\* lines 78, 110: the loop condition fails, TimeoutError is raised.
WaitTimeout ==
    /\ wpc = "loop"
    /\ ~LoopContinues
    /\ outcome' = TimedOut(last_state)
    /\ wpc' = "done"
    /\ iter_slept' = FALSE
    /\ UNCHANGED <<target_states, error_states, timeout, poll_interval, now,
                   elapsed, last_state, consecutive_errors, reads, log, wsleeps>>
    /\ UNCHANGED <<rvars, pvars, bvars, fvars>>

\* lines 78-100: one iteration in which check_fn returns state s.
WaitRead(s) ==
    /\ wpc = "loop"
    /\ LoopContinues
    /\ reads' = Append(reads, s)
    /\ last_state' = s
    /\ log' = IF LogsState(s, last_state) THEN Append(log, s) ELSE log
    /\ LET seen == IF LogsState(s, last_state) THEN now ELSE elapsed   \* line 84
           class == Classify(s, target_states, error_states)
       IN  CASE class = "target" ->
                  /\ consecutive_errors' = 0
                  /\ outcome' = Reached(s)
                  /\ wpc' = "done"
                  /\ elapsed' = seen
                  /\ iter_slept' = FALSE
                  /\ UNCHANGED <<now, wsleeps>>
             [] class = "error" /\ ReraisesRuntimeError ->
                  /\ consecutive_errors' = 0
                  /\ outcome' = ErrorState(s)
                  /\ wpc' = "done"
                  /\ elapsed' = seen
                  /\ iter_slept' = FALSE
                  /\ UNCHANGED <<now, wsleeps>>
             [] class = "error" /\ ~ReraisesRuntimeError ->
                  /\ elapsed' = seen
                  /\ ExceptException(0)
             [] OTHER ->
                  \* lines 95-96
                  /\ consecutive_errors' = 0
                  /\ now' = now + poll_interval
                  /\ elapsed' = now'
                  /\ wsleeps' = wsleeps + 1
                  /\ iter_slept' = TRUE
                  /\ UNCHANGED <<outcome, wpc>>
    /\ UNCHANGED <<target_states, error_states, timeout, poll_interval>>
    /\ UNCHANGED <<rvars, pvars, bvars, fvars>>

\* lines 78-80, 98-108: one iteration in which check_fn raises.
WaitCheckRaises(k) ==
    /\ wpc = "loop"
    /\ LoopContinues
    /\ reads' = Append(reads, k)
    /\ IF k = "RuntimeError" /\ ReraisesRuntimeError
       THEN \* lines 98-100
            /\ outcome' = CheckRuntimeError
            /\ wpc' = "done"
            /\ iter_slept' = FALSE
            /\ UNCHANGED <<now, wsleeps, consecutive_errors>>
       ELSE ExceptException(consecutive_errors)
    /\ UNCHANGED <<target_states, error_states, timeout, poll_interval,
                   elapsed, last_state, log>>
    /\ UNCHANGED <<rvars, pvars, bvars, fvars>>

WaitNext ==
    \/ WaitTimeout
    \/ \E s \in States : WaitRead(s)
    \/ \E k \in CheckErrors : WaitCheckRaises(k)

----------------------------------------------------------------------------
(* Controller._execute_single_machine : controller.py 132-326 *)

\* Action lists the pipeline is run with.  Each list of three actions or
\* more, and the list of set_hostname and set_power, has a permutation of
\* itself in the set.
ActionLists ==
    { <<"delete">>,
      <<"set_power">>,
      <<"set_hostname", "set_power">>,
      <<"set_power", "set_hostname">>,
      <<"create_machine", "commission", "deploy">>,
      <<"deploy", "commission", "create_machine">>,
      <<"find_machine", "set_bios", "set_boot_order", "configure_storage",
        "commission">>,
      <<"commission", "configure_storage", "set_boot_order", "set_bios",
        "find_machine">>,
      <<"set_boot_order", "set_network_bond", "release", "delete">>,
      <<"delete", "release", "set_network_bond", "set_boot_order">>,
      <<"set_network_bond", "deploy">> }

\* Hostnames: the configured one (or none) and what the service stores.
CfgHostnames == {"None", "node1"}
RemoteHostnames == {"node0", "node1"}

\* The system_id of the machine the service knows.
RemoteSystemId == "abc123"

\* Machine states get_state can return during a pipeline (machine.py 191-194).
PipeStates == {"DEPLOYING", "READY", "DEPLOYED", "FAILED",
               "FAILED_COMMISSIONING", "FAILED_DEPLOYMENT",
               "FAILED_RELEASING", "FAILED_DISK_ERASING"}

\* commission_timeout / deploy_timeout / release_timeout of the config,
\* in seconds.
PipeTimeout == 10

\* Largest number of entries of machine_cfg['bonds'].
MaxBonds == 2

\* The order in which the stage blocks follow each other in the body of
\* _execute_single_machine (lines 142, 193, 211, 219, 227, 235, 245, 256,
\* 281, 307, 318).
StageOrderAsListed == <<"locate">> \o actions
StageOrder ==
    <<"locate", "set_hostname", "set_power", "set_bios", "set_boot_order",
      "configure_storage", "commission", "set_network_bond", "deploy",
      "release", "delete">>

CurStage == IF pidx \in 1..Len(StageOrder) THEN StageOrder[pidx] ELSE "return"

\* 'x' in actions
InList(l, a) == \E i \in 1..Len(l) : l[i] = a

\* machine.py 211-217, 240-246, 262-268: the arguments of wait_for_state.
StageTargetsAllReadyOrDeployed(stage) == {"READY", "DEPLOYED"}
StageTargets(stage) ==
    CASE stage = "commission" -> {"READY", "DEPLOYED"}
      [] stage = "deploy" -> {"DEPLOYED"}
      [] stage = "release" -> {"READY"}

StageErrors(stage) ==
    CASE stage = "commission" -> {"FAILED_COMMISSIONING", "FAILED"}
      [] stage = "deploy" -> {"FAILED_DEPLOYMENT", "FAILED"}
      [] stage = "release" -> {"FAILED_RELEASING", "FAILED_DISK_ERASING",
                               "FAILED"}

StagePollInterval(stage) ==
    CASE stage = "commission" -> 10
      [] stage = "deploy" -> 15
      [] stage = "release" -> 10

\* The system_id a request names.  list_machines names none (machine.py
\* 54-57); the PUT of create_or_find names the id of the record found
\* (machine.py 113, 122); every request of controller.py 192-326 is given
\* the local system_id.
TargetByHostname(stage, op) == cfg_hostname
Target(stage, op) ==
    IF op = "list_machines" THEN "None"
    ELSE IF stage = "locate" THEN RemoteSystemId
    ELSE system_id

\* One remote request: the stage that issued it, the operation, whether the
\* service accepted it, and the system_id it names.
Call(stage, op, ok) ==
    [stage |-> stage, op |-> op, ok |-> ok, sid |-> Target(stage, op)]

NoResult == [kind |-> "none", value |-> "None"]
Returned(v) == [kind |-> "returned", value |-> v]
Raised == [kind |-> "raised", value |-> "None"]

\* controller.py 147-163, 171-186: stage 1 runs inside try / except
\* Exception, whose handler returns None.
LocateLetsExceptionsOut == FALSE
LocateCatches == TRUE

\* Which stage swallows the failure of its remote requests: only
\* BootManager.set_boot_device does (boot.py 55-61); no other stage call of
\* controller.py 192-326 sits in a try block.
StageCatchesAll(stage) == TRUE
StageCatchesNone(stage) == FALSE
StageCatches(stage) == stage = "set_boot_order"

\* controller.py 324: return None after the delete.
ResultAfterDeleteKeepsId(sid) == sid
ResultAfterDelete(sid) == "None"

\* The variables no stage after the first writes.
stagefix == <<actions, cfg_hostname, remote_hostname, system_id, no_match,
              waits, bonds_cfg, bond_tries>>

\* The stage body ran to its end; control falls to the next stage block.
Advance(stage, reqs) ==
    /\ trace' = trace \o reqs
    /\ ran' = ran \cup {stage}
    /\ pidx' = pidx + 1
    /\ ppc' = "run"
    /\ UNCHANGED <<presult, failed_stage>>

\* An exception leaves the stage body and, with it, the pipeline.
Raise(stage, reqs) ==
    /\ trace' = trace \o reqs
    /\ ran' = ran \cup {stage}
    /\ ppc' = "done"
    /\ presult' = Raised
    /\ failed_stage' = stage
    /\ UNCHANGED pidx

\* A return statement inside the stage body.
Return(stage, reqs, v) ==
    /\ trace' = trace \o reqs
    /\ ran' = ran \cup {stage}
    /\ ppc' = "done"
    /\ presult' = Returned(v)
    /\ UNCHANGED <<pidx, failed_stage>>

\* A remote request of the stage was rejected, or the stage raised.
Fail(stage, reqs) ==
    IF StageCatches(stage) THEN Advance(stage, reqs)
    ELSE Raise(stage, reqs)

\* An exception inside the try block of stage 1.
LocateFail(reqs) ==
    IF LocateCatches THEN Return("locate", reqs, "None")
    ELSE Raise("locate", reqs)

\* Stage 1, controller.py 142-190 with MachineManager.create_or_find,
\* machine.py 95-130.  Both branches of line 143 make the same call.
\* create_or_find never issues a create request: it returns None when the
\* lookup finds nothing (line 110), and the creation code of lines 132-175
\* follows the return of line 130.
StageLocate ==
    /\ ppc = "run" /\ CurStage = "locate"
    /\ \/ \* machine.py 100-101: no serial_number, ValueError
          /\ LocateFail(<<>>)
          /\ UNCHANGED <<system_id, remote_hostname, no_match>>
       \/ \* machine.py 105, 54-78: list_machines raises
          /\ LocateFail(<<Call("locate", "list_machines", FALSE)>>)
          /\ UNCHANGED <<system_id, remote_hostname, no_match>>
       \/ \* machine.py 107-110, controller.py 150-152, 174-179: no match
          /\ Return("locate", <<Call("locate", "list_machines", TRUE)>>,
                    "None")
          /\ no_match' = TRUE
          /\ UNCHANGED <<system_id, remote_hostname>>
       \/ \* machine.py 113: the record has no 'system_id', KeyError
          /\ LocateFail(<<Call("locate", "list_machines", TRUE)>>)
          /\ UNCHANGED <<system_id, remote_hostname, no_match>>
       \/ \* machine.py 118-128: found, hostname absent or already equal
          /\ ~(cfg_hostname # "None" /\ remote_hostname # cfg_hostname)
          /\ Advance("locate", <<Call("locate", "list_machines", TRUE)>>)
          /\ system_id' = RemoteSystemId
          /\ UNCHANGED <<remote_hostname, no_match>>
       \/ \* machine.py 119-126: found, the hostname differs: update_hostname
          /\ cfg_hostname # "None" /\ remote_hostname # cfg_hostname
          /\ \/ \* the PUT is rejected; line 126 re-raises
                /\ LocateFail(<<Call("locate", "list_machines", TRUE),
                                Call("locate", "update_hostname", FALSE)>>)
                /\ UNCHANGED <<system_id, remote_hostname, no_match>>
             \/ \* the PUT is accepted, the response carries the system_id
                /\ Advance("locate",
                           <<Call("locate", "list_machines", TRUE),
                             Call("locate", "update_hostname", TRUE)>>)
                /\ system_id' = RemoteSystemId
                /\ remote_hostname' = cfg_hostname
                /\ UNCHANGED no_match
             \/ \* the PUT is accepted, the response has no system_id:
                \* controller.py 154-158, 188-190
                /\ Return("locate",
                          <<Call("locate", "list_machines", TRUE),
                            Call("locate", "update_hostname", TRUE)>>,
                          "None")
                /\ remote_hostname' = cfg_hostname
                /\ UNCHANGED <<system_id, no_match>>
    /\ UNCHANGED <<actions, cfg_hostname, waits, bonds_cfg, bond_tries>>
    /\ UNCHANGED <<rvars, wvars, bvars, fvars>>

\* A stage block whose action is not in the list is passed over.
StageSkip ==
    /\ ppc = "run"
    /\ CurStage \notin {"locate", "return"}
    /\ ~InList(actions, CurStage)
    /\ pidx' = pidx + 1
    /\ UNCHANGED <<ppc, presult, trace, failed_stage, ran>>
    /\ UNCHANGED stagefix
    /\ UNCHANGED <<rvars, wvars, bvars, fvars>>

\* Stage 2, controller.py 193-208.  MachineManager has no get_by_id
\* (machine.py 12-281): line 201 raises AttributeError before any request.
StageSetHostname ==
    /\ ppc = "run" /\ CurStage = "set_hostname"
    /\ InList(actions, "set_hostname")
    /\ IF cfg_hostname = "None"
       THEN Advance("set_hostname", <<>>)       \* lines 198-199
       ELSE Fail("set_hostname", <<>>)          \* line 201
    /\ UNCHANGED stagefix
    /\ UNCHANGED <<rvars, wvars, bvars, fvars>>

\* Stage 3, controller.py 211-216 with update_power, machine.py 177-189.
StagePower ==
    /\ ppc = "run" /\ CurStage = "set_power"
    /\ InList(actions, "set_power")
    /\ \/ Advance("set_power", <<Call("set_power", "update_machine", TRUE)>>)
       \/ Fail("set_power", <<Call("set_power", "update_machine", FALSE)>>)
    /\ UNCHANGED stagefix
    /\ UNCHANGED <<rvars, wvars, bvars, fvars>>

\* BIOS stage, controller.py 219-224 with apply_settings, bios.py 15-38.
StageBios ==
    /\ ppc = "run" /\ CurStage = "set_bios"
    /\ InList(actions, "set_bios")
    /\ \/ \* controller.py 219: bios_cfg is empty, the block is passed over
          /\ pidx' = pidx + 1
          /\ UNCHANGED <<ppc, presult, trace, failed_stage, ran>>
       \/ \* bios.py 32, 36-38: nothing to send
          Advance("set_bios", <<>>)
       \/ \* bios.py 33-35: the update is accepted
          Advance("set_bios", <<Call("set_bios", "update_machine", TRUE)>>)
       \/ \* bios.py 33: the update is rejected, nothing catches it
          Fail("set_bios", <<Call("set_bios", "update_machine", FALSE)>>)
    /\ UNCHANGED stagefix
    /\ UNCHANGED <<rvars, wvars, bvars, fvars>>

\* Boot-order stage, controller.py 227-232 with set_boot_device,
\* boot.py 15-61: POST machines/<id>/set_boot_device, then POST
\* machines/<id> with op=set_boot_device, are tried in turn.
StageBoot ==
    /\ ppc = "run" /\ CurStage = "set_boot_order"
    /\ InList(actions, "set_boot_order")
    /\ \/ \* controller.py 227: boot_order is empty
          /\ pidx' = pidx + 1
          /\ UNCHANGED <<ppc, presult, trace, failed_stage, ran>>
       \/ Advance("set_boot_order",
                  <<Call("set_boot_order", "set_boot_device", TRUE)>>)
       \/ Advance("set_boot_order",
                  <<Call("set_boot_order", "set_boot_device", FALSE),
                    Call("set_boot_order", "op_set_boot_device", TRUE)>>)
       \/ \* boot.py 52-61: every endpoint rejected
          Fail("set_boot_order",
               <<Call("set_boot_order", "set_boot_device", FALSE),
                 Call("set_boot_order", "op_set_boot_device", FALSE)>>)
    /\ UNCHANGED stagefix
    /\ UNCHANGED <<rvars, wvars, bvars, fvars>>

\* Storage stage, controller.py 235-242 with apply_layout, storage.py
\* 145-163, and choose_device, storage.py 96-122.
StageStorage ==
    /\ ppc = "run" /\ CurStage = "configure_storage"
    /\ InList(actions, "configure_storage")
    /\ \/ \* a device is configured, the layout is accepted
          Advance("configure_storage",
                  <<Call("configure_storage", "update_machine", TRUE)>>)
       \/ \* a device is configured, the layout is rejected
          Fail("configure_storage",
               <<Call("configure_storage", "update_machine", FALSE)>>)
       \/ \* no device configured; choose_device finds one
          \E ok \in BOOLEAN :
             LET reqs == <<Call("configure_storage", "list_block_devices",
                                 TRUE),
                            Call("configure_storage", "update_machine", ok)>>
             IN  IF ok THEN Advance("configure_storage", reqs)
                 ELSE Fail("configure_storage", reqs)
       \/ \* storage.py 149-152: choose_device returns None, ValueError
          \E ok \in BOOLEAN :
             Fail("configure_storage",
                  <<Call("configure_storage", "list_block_devices", ok)>>)
    /\ UNCHANGED stagefix
    /\ UNCHANGED <<rvars, wvars, bvars, fvars>>

\* The call of wait_for_state made by commission, deploy and release.
StartWait(stage) ==
    /\ target_states' = StageTargets(stage)
    /\ error_states' = EffectiveErrorStates(StageErrors(stage))
    /\ timeout' = PipeTimeout
    /\ poll_interval' = StagePollInterval(stage)
    /\ now' = 0
    /\ elapsed' = 0
    /\ last_state' = "None"
    /\ consecutive_errors' = 0
    /\ wpc' = "loop"
    /\ outcome' = NoOutcome
    /\ reads' = <<>>
    /\ log' = <<>>
    /\ wsleeps' = 0
    /\ iter_slept' = FALSE

\* MachineManager.commission / deploy / release up to the wait:
\* machine.py 196-208, 224-237, 254-260.  The request goes out first; if
\* it raises, wait_for_state is never called.
FireAndWait(stage) ==
    \/ \* the request is rejected
       /\ Fail(stage, <<Call(stage, stage, FALSE)>>)
       /\ UNCHANGED wvars
    \/ \* the request is accepted, wait is false
       /\ Advance(stage, <<Call(stage, stage, TRUE)>>)
       /\ UNCHANGED wvars
    \/ \* the request is accepted, wait is true
       /\ trace' = Append(trace, Call(stage, stage, TRUE))
       /\ ran' = ran \cup {stage}
       /\ ppc' = "wait"
       /\ UNCHANGED <<pidx, presult, failed_stage>>
       /\ StartWait(stage)

\* Commission stage, controller.py 245-253.
StageCommission ==
    /\ ppc = "run" /\ CurStage = "commission"
    /\ InList(actions, "commission")
    /\ FireAndWait("commission")
    /\ UNCHANGED stagefix
    /\ UNCHANGED <<rvars, bvars, fvars>>

\* controller.py 269-277: the handler of a failed bond logs the error and
\* collects its message; the stage then raises.  No request is added.
OnBondFailureRollsBack(reqs) ==
    reqs \o <<Call("set_network_bond", "delete_interface", TRUE)>>
OnBondFailure(reqs) == reqs

\* controller.py 267-274: the loop over bonds_cfg; the handler of a failed
\* bond does not leave the loop.  Of n bonds with outcomes ok, the number
\* that are tried.
BondsTriedUntilFailure(n, ok) ==
    IF \A i \in 1..n : ok[i] THEN n
    ELSE CHOOSE i \in 1..n : ~ok[i] /\ \A j \in 1..(i - 1) : ok[j]
BondsTried(n, ok) == n

\* Bond stage, controller.py 256-278: every bond is attempted, then one
\* exception is raised if any of them failed.
StageBonds ==
    /\ ppc = "run" /\ CurStage = "set_network_bond"
    /\ InList(actions, "set_network_bond")
    /\ \/ \* lines 262-263: no bonds in the machine's config
          /\ Advance("set_network_bond", <<>>)
          /\ UNCHANGED <<bonds_cfg, bond_tries>>
       \/ \E n \in 1..MaxBonds : \E ok \in [1..n -> BOOLEAN] :
             LET tried == BondsTried(n, ok)
                 reqs == [i \in 1..tried |->
                             Call("set_network_bond", "configure_bond", ok[i])]
             IN  /\ bonds_cfg' = n
                 /\ bond_tries' = [i \in 1..tried |->
                                     [bond |-> i, ok |-> ok[i]]]
                 /\ IF \A i \in 1..tried : ok[i]
                    THEN Advance("set_network_bond", reqs)
                    ELSE Fail("set_network_bond", OnBondFailure(reqs))
    /\ UNCHANGED <<actions, cfg_hostname, remote_hostname, system_id,
                   no_match, waits>>
    /\ UNCHANGED <<rvars, wvars, bvars, fvars>>

\* Deploy stage, controller.py 281-304.
StageDeploy ==
    /\ ppc = "run" /\ CurStage = "deploy"
    /\ InList(actions, "deploy")
    /\ \/ \* lines 291-298: the cloud-init file cannot be read
          /\ Fail("deploy", <<>>)
          /\ UNCHANGED wvars
       \/ FireAndWait("deploy")
    /\ UNCHANGED stagefix
    /\ UNCHANGED <<rvars, bvars, fvars>>

\* Release stage, controller.py 307-315.
StageRelease ==
    /\ ppc = "run" /\ CurStage = "release"
    /\ InList(actions, "release")
    /\ FireAndWait("release")
    /\ UNCHANGED stagefix
    /\ UNCHANGED <<rvars, bvars, fvars>>

\* wait_for_state has ended: machine.py 218-222, 247-252, 269-271.
StageWaitEnd ==
    /\ ppc = "wait" /\ wpc = "done"
    /\ waits' = Append(waits, [stage |-> CurStage, outcome |-> outcome,
                               reads |-> reads])
    /\ IF outcome.kind = "Reached"
       THEN Advance(CurStage, <<>>)
       ELSE Fail(CurStage, <<>>)
    /\ target_states' = {} /\ error_states' = {} /\ timeout' = 0
    /\ poll_interval' = 0 /\ now' = 0 /\ elapsed' = 0
    /\ last_state' = "None" /\ consecutive_errors' = 0 /\ wpc' = "idle"
    /\ outcome' = NoOutcome /\ reads' = <<>> /\ log' = <<>>
    /\ wsleeps' = 0 /\ iter_slept' = FALSE
    /\ UNCHANGED <<actions, cfg_hostname, remote_hostname, system_id,
                   no_match, bonds_cfg, bond_tries>>
    /\ UNCHANGED <<rvars, bvars, fvars>>

\* Delete stage, controller.py 318-324 with delete, machine.py 273-277.
StageDelete ==
    /\ ppc = "run" /\ CurStage = "delete"
    /\ InList(actions, "delete")
    /\ \/ Return("delete", <<Call("delete", "delete_machine", TRUE)>>,
                 ResultAfterDelete(system_id))
       \/ Fail("delete", <<Call("delete", "delete_machine", FALSE)>>)
    /\ UNCHANGED stagefix
    /\ UNCHANGED <<rvars, wvars, bvars, fvars>>

\* controller.py 326: return system_id
PipeReturn ==
    /\ ppc = "run" /\ CurStage = "return"
    /\ presult' = Returned(system_id)
    /\ ppc' = "done"
    /\ UNCHANGED <<pidx, trace, failed_stage, ran>>
    /\ UNCHANGED stagefix
    /\ UNCHANGED <<rvars, wvars, bvars, fvars>>

PipeNext ==
    \/ StageLocate
    \/ StageSkip
    \/ StageSetHostname
    \/ StagePower
    \/ StageBios
    \/ StageBoot
    \/ StageStorage
    \/ StageCommission
    \/ StageBonds
    \/ StageDeploy
    \/ StageRelease
    \/ StageDelete
    \/ StageWaitEnd
    \/ PipeReturn
    \/ WaitTimeout
    \/ \E s \in PipeStates : WaitRead(s)
    \/ \E k \in CheckErrors : WaitCheckRaises(k)

----------------------------------------------------------------------------
(* NetworkManager.configure_bond_by_vlan : network.py 324-657 *)

\* An entry of the machine's interface_set: name ("None" when absent),
\* type, the vid of its own vlan (NoVid when it has none) and the vids of
\* its links' subnet vlans, in order.  The id of an entry is its position
\* in the list: the service gives every interface its own id.
NoVid == 0
Iface(n, t, v, l) == [name |-> n, type |-> t, vlan |-> v, links |-> l]

\* The vid the interfaces are matched against: vlan_ids[0] (lines 354-363).
TargetVid == 10

IfacePool ==
    { Iface("eth0", "physical", 10, <<>>),
      Iface("eth1", "physical", 10, <<>>),
      Iface("eth2", "physical", 20, <<>>),
      Iface("bond0", "bond", 10, <<>>),
      Iface("br0", "bridge", 20, <<10>>),
      Iface("eth3", "physical", NoVid, <<20, 10>>),
      Iface("eth1.10", "vlan", 10, <<>>),
      Iface("None", "physical", 10, <<>>) }

\* Longest interface_set explored.
MaxIfaces == 4

RECURSIVE SeqsUpTo(_, _)
SeqsUpTo(S, n) ==
    IF n = 0 THEN {<<>>}
    ELSE LET shorter == SeqsUpTo(S, n - 1)
         IN  shorter \cup {Append(q, x) : q \in {r \in shorter : Len(r) = n - 1},
                                          x \in S}

\* bond_config['vlan_id'] as a list whose first element is the target.
VlanIdLists == {<<10>>, <<10, 20, 30>>}

SeqHas(q, x) == \E i \in 1..Len(q) : q[i] = x

\* line 400: if iface_type in ["bond", "bridge"]: continue
SkipsBondsOnly(t) == t = "bond"
SkippedType(t) == t \in {"bond", "bridge"}

\* lines 405-410: the interface's own vlan
DirectMatch(iface, vid) == iface.vlan # NoVid /\ iface.vlan = vid

\* lines 413-425: any link whose subnet's vlan has the vid
LinkMatchNever(iface, vid) == FALSE
LinkMatch(iface, vid) == SeqHas(iface.links, vid)

\* line 440: if len(matching_interfaces) < 2
EnoughParentsOne(n) == ~(n < 1)
EnoughParents(n) == ~(n < 2)

\* lines 643-651: only the failure of the first VLAN interface is re-raised.
VlanFailureNeverFatal(idx) == FALSE
VlanFailureFatal(idx) == idx = 1

\* lines 473-486: the id of the first interface carrying each matched name.
FirstNamed(ifs, n) == CHOOSE i \in 1..Len(ifs) :
                         /\ ifs[i].name = n
                         /\ \A j \in 1..(i - 1) : ifs[j].name # n
IdsOf(ifs, names) == [k \in 1..Len(names) |-> FirstNamed(ifs, names[k])]

BondReq(op, arg, ok) == [op |-> op, arg |-> arg, ok |-> ok]

BondStart ==
    /\ interfaces \in SeqsUpTo(IfacePool, MaxIfaces)
    /\ vlan_ids \in VlanIdLists
    /\ bpc = "get"
    /\ match_i = 0
    /\ matching_interfaces = <<>>
    /\ links_examined = {}
    /\ interface_ids = <<>>
    /\ breqs = <<>>
    /\ vlan_idx = 0
    /\ created_vlan_interfaces = <<>>
    /\ berror = "None"

\* lines 368, network.py 17-37: GET nodes/<id>
GetInterfaces ==
    /\ bpc = "get"
    /\ \/ /\ breqs' = Append(breqs, BondReq("get_node", <<>>, TRUE))
          /\ bpc' = "match"
          /\ match_i' = 1
          /\ UNCHANGED berror
       \/ /\ breqs' = Append(breqs, BondReq("get_node", <<>>, FALSE))
          /\ bpc' = "raised"
          /\ berror' = "get_interfaces"
          /\ UNCHANGED match_i
    /\ UNCHANGED <<interfaces, vlan_ids, matching_interfaces, links_examined,
                   interface_ids, vlan_idx, created_vlan_interfaces>>
    /\ UNCHANGED <<rvars, wvars, pvars, fvars>>

\* lines 389-427: one iteration of the matching loop.
MatchStep ==
    /\ bpc = "match"
    /\ match_i <= Len(interfaces)
    /\ LET iface == interfaces[match_i]
           vid == vlan_ids[1]
           add == IF SeqHas(matching_interfaces, iface.name)
                  THEN matching_interfaces
                  ELSE Append(matching_interfaces, iface.name)
       IN  IF iface.name = "None" \/ SkippedType(iface.type)
           THEN \* lines 395-402
                UNCHANGED <<matching_interfaces, links_examined>>
           ELSE IF DirectMatch(iface, vid)
           THEN \* lines 405-410: append unless present, then continue
                /\ matching_interfaces' = add
                /\ UNCHANGED links_examined
           ELSE \* lines 413-425
                /\ links_examined' = links_examined \cup {match_i}
                /\ matching_interfaces' =
                      IF LinkMatch(iface, vid) THEN add
                      ELSE matching_interfaces
    /\ match_i' = match_i + 1
    /\ UNCHANGED <<interfaces, vlan_ids, bpc, interface_ids, breqs, vlan_idx,
                   created_vlan_interfaces, berror>>
    /\ UNCHANGED <<rvars, wvars, pvars, fvars>>

\* lines 440-489: the size check and the lookup of the parents' ids.
MatchDone ==
    /\ bpc = "match"
    /\ match_i > Len(interfaces)
    /\ IF EnoughParents(Len(matching_interfaces))
       THEN /\ interface_ids' = IdsOf(interfaces, matching_interfaces)
            /\ bpc' = "create"
            /\ UNCHANGED berror
       ELSE \* lines 441-462: ValueError("Found only ... interface(s) ...")
            /\ bpc' = "raised"
            /\ berror' = "ValueError: not enough interfaces"
            /\ UNCHANGED interface_ids
    /\ UNCHANGED <<interfaces, vlan_ids, match_i, matching_interfaces,
                   links_examined, breqs, vlan_idx, created_vlan_interfaces>>
    /\ UNCHANGED <<rvars, wvars, pvars, fvars>>

\* lines 491-532, 646-657: POST nodes/<id>/interfaces op=create_bond
CreateBond ==
    /\ bpc = "create"
    /\ \/ /\ breqs' = Append(breqs, BondReq("create_bond", interface_ids, TRUE))
          /\ bpc' = "subnet"
          /\ UNCHANGED berror
       \/ /\ breqs' = Append(breqs, BondReq("create_bond", interface_ids, FALSE))
          /\ bpc' = "raised"
          /\ berror' = "create_bond"
    /\ UNCHANGED <<interfaces, vlan_ids, match_i, matching_interfaces,
                   links_examined, interface_ids, vlan_idx,
                   created_vlan_interfaces>>
    /\ UNCHANGED <<rvars, wvars, pvars, fvars>>

\* lines 534-588: the optional subnet link; every failure in it is logged
\* and swallowed.
LinkSubnet ==
    /\ bpc = "subnet"
    /\ \/ UNCHANGED breqs                       \* no subnet / no ip_mode
       \/ \* the lookup raises or finds nothing
          breqs' = Append(breqs, BondReq("find_subnet", <<>>, FALSE))
       \/ \E ok \in BOOLEAN :
             breqs' = breqs \o <<BondReq("find_subnet", <<>>, TRUE),
                                 BondReq("link_subnet", <<>>, ok)>>
    /\ bpc' = "vlans"
    /\ vlan_idx' = 1
    /\ UNCHANGED <<interfaces, vlan_ids, match_i, matching_interfaces,
                   links_examined, interface_ids, created_vlan_interfaces,
                   berror>>
    /\ UNCHANGED <<rvars, wvars, pvars, fvars>>

\* lines 595-634: one iteration of the VLAN loop,
\* POST nodes/<id>/interfaces op=create_vlan
CreateVlan ==
    /\ bpc = "vlans"
    /\ vlan_idx <= Len(vlan_ids)
    /\ \/ /\ breqs' = Append(breqs,
                         BondReq("create_vlan", <<vlan_ids[vlan_idx]>>, TRUE))
          /\ created_vlan_interfaces' =
                Append(created_vlan_interfaces, vlan_ids[vlan_idx])
          /\ vlan_idx' = vlan_idx + 1
          /\ UNCHANGED <<bpc, berror>>
       \/ /\ breqs' = Append(breqs,
                         BondReq("create_vlan", <<vlan_ids[vlan_idx]>>, FALSE))
          /\ UNCHANGED created_vlan_interfaces
          /\ IF VlanFailureFatal(vlan_idx)
             THEN /\ bpc' = "raised"
                  /\ berror' = "create_vlan"
                  /\ UNCHANGED vlan_idx
             ELSE /\ vlan_idx' = vlan_idx + 1
                  /\ UNCHANGED <<bpc, berror>>
    /\ UNCHANGED <<interfaces, vlan_ids, match_i, matching_interfaces,
                   links_examined, interface_ids>>
    /\ UNCHANGED <<rvars, wvars, pvars, fvars>>

\* lines 636-645: return last_vlan_interface, or the bond
BondReturn ==
    /\ bpc = "vlans"
    /\ vlan_idx > Len(vlan_ids)
    /\ bpc' = "returned"
    /\ UNCHANGED <<interfaces, vlan_ids, match_i, matching_interfaces,
                   links_examined, interface_ids, breqs, vlan_idx,
                   created_vlan_interfaces, berror>>
    /\ UNCHANGED <<rvars, wvars, pvars, fvars>>

BondNext ==
    \/ GetInterfaces
    \/ MatchStep
    \/ MatchDone
    \/ CreateBond
    \/ LinkSubnet
    \/ CreateVlan
    \/ BondReturn

----------------------------------------------------------------------------
(* Controller.execute_workflow : controller.py 32-114, with                *)
(* _execute_single_machine_safe : controller.py 116-130                    *)

\* Largest fleet explored.
MaxMachines == 4

\* Poll ticks of a machine followed once the interrupt has arrived.
MaxLatePolls == 2

\* How one call of _execute_single_machine ends (controller.py 132-326):
\* it returns the system_id (line 326), returns None because the machine
\* was not resolved (lines 150-191), returns None after the delete of
\* lines 318-324 ("deleted"), or raises.  actions is one list for the whole
\* fleet (line 37): with 'delete' in it no pipeline reaches line 326,
\* without it none reaches line 324.
PipelineResultsIgnoreDelete(del) == {"id", "None", "raised"}
PipelineResults(del) ==
    IF del THEN {"None", "deleted", "raised"} ELSE {"id", "None", "raised"}

Fleet == 1..nmach

\* line 52: parallel = cfg.get('parallel', True)
GetParallel(entry) == IF entry = "absent" THEN TRUE ELSE entry = "True"

\* line 57: if parallel and len(machines_cfg) > 1
ParallelIgnoresFlag == nmach > 1
Parallel == cfg_parallel /\ nmach > 1

\* line 62: ThreadPoolExecutor(max_workers=len(machines_cfg))
max_workers_half == (nmach + 1) \div 2
max_workers == nmach

\* lines 107-110 and 124-130: except Exception around each machine.
LetsMachineExceptionOut == FALSE
CatchesPerMachine == TRUE

\* What execute_workflow hands to its caller: the list of line 114, or the
\* exception that leaves it.
WorkflowReturned(ids) == [kind |-> "returned", value |-> ids]
WorkflowRaised(exc) == [kind |-> "raised", value |-> exc]

\* cli.py 275-319: main prints the summary of the list execute_workflow
\* returned (lines 283-296); on KeyboardInterrupt it logs "Interrupted by
\* user" and exits with 130 (lines 311-314), on any other exception with 1.
NoSummary == <<"none">>
SummaryOf(res) ==
    IF res.kind = "returned" THEN <<"summary", res.value>> ELSE NoSummary

Started(m) == mstat[m] \notin {"pending", "queued"}
Ended(m) == mstat[m] \notin {"pending", "queued", "running"}
InFlight == {m \in Fleet : mstat[m] = "running"}

\* line 72: as_completed yields each future once, when it is done.
YieldsAgain(m) == TRUE
Unseen(m) == tally[m] = <<>>

\* lines 77-81 and 97-102: `if system_id:` decides the log entry and the
\* append.
Verdict(res) == IF res = "id" THEN "success" ELSE "failure"

\* The late poll ticks of one machine are followed, up to MaxLatePolls.
FollowsLatePoll(m) ==
    /\ polls_after[m] < MaxLatePolls
    /\ \A k \in Fleet \ {m} : polls_after[k] = 0

\* The state on entry.  Sequential mode (lines 92-99): the loop is in its
\* first iteration, inside the first machine's pipeline.
WorkflowStart ==
    /\ cfg_entry \in {"absent", "True", "False"}
    /\ cfg_parallel = GetParallel(cfg_entry)
    /\ cfg_delete \in BOOLEAN
    /\ nmach \in 1..MaxMachines
    /\ mstat = [m \in Fleet |->
                  IF ~Parallel /\ m = 1 THEN "running" ELSE "pending"]
    /\ started = [m \in Fleet |-> IF ~Parallel /\ m = 1 THEN 1 ELSE 0]
    /\ tally = [m \in Fleet |-> <<>>]
    /\ system_ids = <<>>
    /\ wfpc = "run"
    /\ wfresult = NoResult
    /\ interrupted = FALSE
    /\ polls_after = [m \in Fleet |-> 0]

\* lines 64-70: executor.submit for machine m, in input order.  The pool
\* starts a thread for the work item while fewer than max_workers are
\* busy; otherwise the item waits in the pool's queue.
Submit(m) ==
    /\ wfpc = "run"
    /\ Parallel
    /\ ~interrupted
    /\ m \in Fleet
    /\ mstat[m] = "pending"
    /\ \A k \in 1..(m - 1) : mstat[k] # "pending"
    /\ IF Cardinality(InFlight) < max_workers
       THEN /\ mstat' = [mstat EXCEPT ![m] = "running"]
            /\ started' = [started EXCEPT ![m] = @ + 1]
       ELSE /\ mstat' = [mstat EXCEPT ![m] = "queued"]
            /\ UNCHANGED started
    /\ UNCHANGED <<wfcfg, tally, system_ids, wfpc,
                   wfresult, interrupted, polls_after>>
    /\ UNCHANGED <<rvars, wvars, pvars, bvars>>

\* One remote call of machine m's pipeline that does not end it: a poll
\* tick of a wait_for_state (utils.py 78-96), where the state read is not
\* final and the thread sleeps.  Nothing in the loop looks at an interrupt.
WorkerPoll(m) ==
    /\ wfpc = "run"
    /\ m \in Fleet
    /\ mstat[m] = "running"
    /\ IF interrupted
       THEN /\ FollowsLatePoll(m)
            /\ polls_after' = [polls_after EXCEPT ![m] = @ + 1]
       ELSE UNCHANGED polls_after
    /\ UNCHANGED <<wfcfg, mstat, started, tally,
                   system_ids, wfpc, wfresult, interrupted>>
    /\ UNCHANGED <<rvars, wvars, pvars, bvars>>

\* Machine m's pipeline ends with result res.
\* Concurrent mode, lines 116-130: the worker thread ends and its future
\* completes; the pool's thread takes the next queued item, if any.  Once
\* KeyboardInterrupt has left the `with` body nothing reads the future.
\* Sequential mode, lines 92-110: the result is logged and appended and
\* the loop moves on to the next machine's pipeline.
WorkerFinish(m, res) ==
    /\ wfpc = "run"
    /\ m \in Fleet
    /\ mstat[m] = "running"
    /\ res \in PipelineResults(cfg_delete)
    /\ IF Parallel
       THEN LET queued == {k \in Fleet : mstat[k] = "queued"}
                nxt == IF queued = {} THEN 0
                       ELSE CHOOSE k \in queued : \A j \in queued : k <= j
                end == IF interrupted THEN "uncollected" ELSE res
            IN  /\ mstat' = [k \in Fleet |->
                               IF k = m THEN end
                               ELSE IF k = nxt THEN "running" ELSE mstat[k]]
                /\ started' = [k \in Fleet |->
                                 IF k = nxt THEN started[k] + 1
                                 ELSE started[k]]
                /\ UNCHANGED <<tally, system_ids, wfpc, wfresult>>
       ELSE IF res = "raised" /\ ~CatchesPerMachine
            THEN /\ wfpc' = "raised"
                 /\ wfresult' = WorkflowRaised("Exception")
                 /\ mstat' = [mstat EXCEPT ![m] = res]
                 /\ UNCHANGED <<started, tally, system_ids>>
            ELSE /\ system_ids' = IF res = "id"
                                  THEN Append(system_ids, m)
                                  ELSE system_ids
                 /\ tally' = [tally EXCEPT ![m] = Append(@, Verdict(res))]
                 /\ mstat' = [k \in Fleet |->
                                IF k = m THEN res
                                ELSE IF k = m + 1 THEN "running"
                                     ELSE mstat[k]]
                 /\ started' = [k \in Fleet |->
                                  IF k = m + 1 THEN started[k] + 1
                                  ELSE started[k]]
                 /\ UNCHANGED <<wfpc, wfresult>>
    /\ UNCHANGED <<wfcfg, interrupted, polls_after>>
    /\ UNCHANGED <<rvars, wvars, pvars, bvars>>

\* Concurrent mode, lines 72-83: every machine has been submitted;
\* as_completed yields a completed future the loop has not seen, and its
\* result is logged and, if it is a system_id, appended.  The wrapper of
\* lines 124-130 has turned a raising pipeline into a None result.
Collect(m) ==
    /\ wfpc = "run"
    /\ Parallel
    /\ ~interrupted
    /\ m \in Fleet
    /\ \A k \in Fleet : mstat[k] # "pending"
    /\ Ended(m)
    /\ Unseen(m)
    /\ IF mstat[m] = "raised" /\ ~CatchesPerMachine
       THEN /\ wfpc' = "raised"
            /\ wfresult' = WorkflowRaised("Exception")
            /\ UNCHANGED <<tally, system_ids>>
       ELSE /\ system_ids' = IF mstat[m] = "id"
                             THEN Append(system_ids, m)
                             ELSE system_ids
            /\ tally' = [tally EXCEPT ![m] = Append(@, Verdict(mstat[m]))]
            /\ UNCHANGED <<wfpc, wfresult>>
    /\ UNCHANGED <<wfcfg, mstat, started,
                   interrupted, polls_after>>
    /\ UNCHANGED <<rvars, wvars, pvars, bvars>>

\* The operator's signal: KeyboardInterrupt is raised in the main thread.
\* Sequential mode: the main thread is inside the running pipeline; the
\* exception is no Exception, passes every handler and leaves
\* execute_workflow (lines 104-106).
\* Concurrent mode: the main thread is inside the `with` block of line 62
\* (submitting, or in as_completed, line 72); the exception reaches the
\* exit of the block, which waits for every worker thread; the workers are
\* not told.
Interrupt ==
    /\ wfpc = "run"
    /\ ~interrupted
    /\ InFlight # {}
    /\ interrupted' = TRUE
    /\ IF Parallel
       THEN UNCHANGED <<mstat, wfpc, wfresult>>
       ELSE /\ wfpc' = "interrupted"
            /\ wfresult' = WorkflowRaised("KeyboardInterrupt")
            /\ mstat' = [m \in Fleet |->
                           IF mstat[m] = "running" THEN "interrupted"
                           ELSE mstat[m]]
    /\ UNCHANGED <<wfcfg, started, tally,
                   system_ids, polls_after>>
    /\ UNCHANGED <<rvars, wvars, pvars, bvars>>

\* lines 86, 113-114: the loop over the machines has ended and the list is
\* returned.  After an interrupt in concurrent mode: the executor has shut
\* down, no worker is left, and KeyboardInterrupt leaves execute_workflow.
WorkflowReturn ==
    /\ wfpc = "run"
    /\ IF interrupted
       THEN /\ InFlight = {}
            /\ \A m \in Fleet : mstat[m] # "queued"
            /\ wfpc' = "interrupted"
            /\ wfresult' = WorkflowRaised("KeyboardInterrupt")
       ELSE /\ \A m \in Fleet : Ended(m) /\ tally[m] # <<>>
            /\ wfpc' = "returned"
            /\ wfresult' = WorkflowReturned(system_ids)
    /\ UNCHANGED <<wfcfg, mstat, started, tally,
                   system_ids, interrupted, polls_after>>
    /\ UNCHANGED <<rvars, wvars, pvars, bvars>>

WorkflowNext ==
    \/ \E m \in 1..MaxMachines : Submit(m)
    \/ \E m \in 1..MaxMachines : WorkerPoll(m)
    \/ \E m \in 1..MaxMachines :
          \E res \in {"id", "None", "deleted", "raised"} : WorkerFinish(m, res)
    \/ \E m \in 1..MaxMachines : Collect(m)
    \/ Interrupt
    \/ WorkflowReturn

----------------------------------------------------------------------------
(* The components at rest, and the specifications *)

RetryIdle ==
    /\ retries = 0 /\ delay = 0 /\ backoff = 0 /\ max_delay = 0
    /\ attempt = 0 /\ last = NoExc /\ rpc = "idle" /\ raised = NoExc
    /\ calls = 0 /\ nsleeps = 0 /\ sleep_time = 0 /\ prev_sleep = 0

WaitIdle ==
    /\ target_states = {} /\ error_states = {} /\ timeout = 0
    /\ poll_interval = 0 /\ now = 0 /\ elapsed = 0 /\ last_state = "None"
    /\ consecutive_errors = 0 /\ wpc = "idle" /\ outcome = NoOutcome
    /\ reads = <<>> /\ log = <<>> /\ wsleeps = 0 /\ iter_slept = FALSE

PipeIdle ==
    /\ actions = <<>> /\ cfg_hostname = "None" /\ remote_hostname = "None"
    /\ ppc = "idle" /\ pidx = 0 /\ system_id = "None" /\ presult = NoResult
    /\ trace = <<>> /\ failed_stage = "None" /\ ran = {} /\ no_match = FALSE
    /\ waits = <<>> /\ bonds_cfg = 0 /\ bond_tries = <<>>

BondIdle ==
    /\ interfaces = <<>> /\ vlan_ids = <<>> /\ bpc = "idle" /\ match_i = 0
    /\ matching_interfaces = <<>> /\ links_examined = {}
    /\ interface_ids = <<>> /\ breqs = <<>> /\ vlan_idx = 0
    /\ created_vlan_interfaces = <<>> /\ berror = "None"

WorkflowIdle ==
    /\ cfg_entry = "absent" /\ cfg_parallel = FALSE /\ cfg_delete = FALSE
    /\ nmach = 0
    /\ mstat = <<>> /\ started = <<>> /\ tally = <<>> /\ system_ids = <<>>
    /\ wfpc = "idle" /\ wfresult = NoResult /\ interrupted = FALSE
    /\ polls_after = <<>>

\* One call of retry.
InitRetry == RetryStart /\ WaitIdle /\ PipeIdle /\ BondIdle /\ WorkflowIdle
SpecRetry == InitRetry /\ [][RetryNext]_vars

\* One call of wait_for_state.
InitPoll == WaitStart /\ RetryIdle /\ PipeIdle /\ BondIdle /\ WorkflowIdle
SpecPoll == InitPoll /\ [][WaitNext]_vars

\* The same, where the calling thread keeps running: check_fn returns or
\* raises, and time.sleep returns.
SpecPollFair == SpecPoll /\ WF_vars(WaitNext)

\* One call of _execute_single_machine.
InitPipeline ==
    /\ actions \in ActionLists
    /\ cfg_hostname \in CfgHostnames
    /\ remote_hostname \in RemoteHostnames
    /\ ppc = "run" /\ pidx = 1 /\ system_id = "None" /\ presult = NoResult
    /\ trace = <<>> /\ failed_stage = "None" /\ ran = {} /\ no_match = FALSE
    /\ waits = <<>> /\ bonds_cfg = 0 /\ bond_tries = <<>>
    /\ RetryIdle /\ WaitIdle /\ BondIdle /\ WorkflowIdle
SpecPipeline == InitPipeline /\ [][PipeNext]_vars

\* One call of configure_bond_by_vlan.
InitBond == BondStart /\ RetryIdle /\ WaitIdle /\ PipeIdle /\ WorkflowIdle
SpecBond == InitBond /\ [][BondNext]_vars

\* One call of execute_workflow.
InitWorkflow ==
    WorkflowStart /\ RetryIdle /\ WaitIdle /\ PipeIdle /\ BondIdle
SpecWorkflow == InitWorkflow /\ [][WorkflowNext]_vars

\* The same, where the main thread runs whenever it can.  Nothing makes a
\* worker's pipeline end: with max_retries = 0 a remote operation is
\* retried forever (controller.py 28-29, utils.py 37).
SpecWorkflowFair ==
    /\ SpecWorkflow
    /\ WF_vars(\E m \in 1..MaxMachines : Submit(m))
    /\ WF_vars(\E m \in 1..MaxMachines : Collect(m))
    /\ WF_vars(WorkflowReturn)

----------------------------------------------------------------------------
(* Properties of retry, checked under SpecRetry *)

\* C1: retry(fn, retries = n) with n > 0 and an fn that raises on every call
\* invokes fn exactly n times, and the exception that leaves retry is the
\* one raised by the n-th call.
C1_ExhaustionRaisesNthFailure ==
    (retries > 0 /\ rpc = "raised") =>
        /\ calls = retries
        /\ raised = last
        /\ raised.call = retries

\* C2: in the unbounded mode (retries = 0) retry never gives up before the
\* first success: it never raises, and when fn fails k times and then
\* returns, retry returns after exactly k + 1 invocations.
C2_UnboundedNeverGivesUp ==
    (rpc # "idle" /\ retries = 0) =>
        /\ rpc # "raised"
        /\ (rpc = "returned" => calls = attempt + 1)

\* C3: the delay slept after the n-th failed attempt is
\* min(delay * backoff^(n-1), max_delay) (a sleep follows every failed
\* attempt that does not end the call); the delays of one call never
\* decrease and none exceeds max_delay.  (For n - 1 >= 20 and backoff >= 2
\* the product is beyond every max_delay explored, as it is at n - 1 = 20.)
C3_BackoffDelays ==
    /\ rpc = "call" => nsleeps = attempt
    /\ nsleeps >= 1 =>
        /\ sleep_time = Min(delay * backoff ^ Min(nsleeps - 1, 20), max_delay)
        /\ sleep_time <= max_delay
        /\ (nsleeps >= 2 => prev_sleep <= sleep_time)

\* C3 witness: the sixth delay of delay = 2, backoff = 2 is cut at max_delay.
C3_Witness ==
    /\ delay = 2 /\ backoff = 2 /\ max_delay = 60
    /\ nsleeps = 6 /\ prev_sleep = 32 /\ sleep_time = 60

\* C4: a call that fails with a semantic rejection (4xx) is not retried:
\* the rejection leaves retry at once, with no sleep and no further call.
C4_RejectionNotRetried ==
    last.kind = "Rejection" => (rpc = "raised" /\ raised = last)

----------------------------------------------------------------------------
(* Properties of wait_for_state, checked under SpecPoll *)

LastRead == reads[Len(reads)]
AllReadsFailed == \A i \in 1..Len(reads) : reads[i] \in CheckErrors
OkReads == SelectSeq(reads, LAMBDA x : x \in States)

\* s without the elements that repeat their predecessor.
RECURSIVE Runs(_)
Runs(s) ==
    IF Len(s) <= 1 THEN s
    ELSE IF s[1] = s[2] THEN Runs(Tail(s))
    ELSE <<s[1]>> \o Runs(Tail(s))

\* C5: as soon as a read returns a state in target_states the call returns
\* that state, with no sleep after the read (and, the call being over, no
\* further read), whatever timeout remains.
C5_TargetReturnsAtOnce ==
    (reads # <<>> /\ LastRead \in target_states) =>
        /\ wpc = "done"
        /\ outcome = Reached(LastRead)
        /\ ~iter_slept

\* C5 witness: a target state is read on a later tick while timeout remains.
C5_Witness ==
    /\ Len(reads) >= 2
    /\ LastRead \in target_states
    /\ outcome.kind = "Reached"
    /\ now < timeout

\* C6: for target_states and error_states disjoint (the PollSpec invariant),
\* a read that returns a state in error_states ends the wait at once with
\* the error-state outcome: no sleep follows and the read is not counted as
\* a check failure; this includes the very first read.
C6_ErrorStateEndsAtOnce ==
    (/\ target_states \cap error_states = {}
     /\ reads # <<>>
     /\ LastRead \in error_states) =>
        /\ wpc = "done"
        /\ outcome = ErrorState(LastRead)
        /\ ~iter_slept
        /\ consecutive_errors = 0

\* C6 witness: the very first read returns an error state.
C6_Witness ==
    /\ Len(reads) = 1
    /\ reads[1] \in error_states
    /\ outcome.kind = "ErrorState"
    /\ wsleeps = 0

\* C7: with a check_fn that raises on every invocation, whatever it raises,
\* the wait invokes it exactly max_consecutive_errors times with a sleep
\* between two invocations and then ends with the too-many-failures error.
C7_AlwaysRaisingEndsAfterFive ==
    (timeout > 0 /\ reads # <<>> /\ AllReadsFailed) =>
        /\ Len(reads) <= max_consecutive_errors
        /\ wpc = "loop" =>
              /\ Len(reads) < max_consecutive_errors
              /\ wsleeps = Len(reads)
        /\ wpc = "done" =>
              /\ Len(reads) = max_consecutive_errors
              /\ wsleeps = max_consecutive_errors - 1
              /\ outcome = TooManyFailures

\* C8: the failure counter counts consecutive failures only: a successful
\* read leaves it at zero, and the wait ends in an error caused by read
\* failures only after max_consecutive_errors failed reads in a row.
C8_OnlyConsecutiveFailuresEnd ==
    /\ (reads # <<>> /\ LastRead \in States) => consecutive_errors = 0
    /\ outcome.kind \in {"TooManyFailures", "CheckRuntimeError"} =>
          /\ Len(reads) >= max_consecutive_errors
          /\ \A i \in (Len(reads) - max_consecutive_errors + 1)..Len(reads) :
                reads[i] \in CheckErrors

\* C9: once more than timeout has elapsed since the start without a target
\* or error state having been read, the wait ends TimedOut, not Reached and
\* not in an error, for every interleaving of reads and read failures.
C9_TimeoutWinsOnceExceeded ==
    (wpc = "done" /\ now > timeout) => outcome.kind = "TimedOut"

\* C10 (as stated): for the reads COMMISSIONING, COMMISSIONING, READY with
\* target_states = {READY} exactly one state log entry is written before
\* READY is returned.
C10_OneEntryLogged ==
    (/\ reads = <<"COMMISSIONING", "COMMISSIONING", "READY">>
     /\ target_states = {"READY"}) =>
        Len(log) = 1

\* C10 (amended): a state is logged exactly when it differs from the state
\* read before it, the first read included (last_state starts as None): the
\* log is the read states without their repetitions, and for the reads
\* COMMISSIONING, COMMISSIONING, READY with target_states = {READY} two
\* entries are written, COMMISSIONING and READY, before READY is returned.
C10_LogsOnChangeOnly ==
    /\ log = Runs(OkReads)
    /\ (/\ reads = <<"COMMISSIONING", "COMMISSIONING", "READY">>
        /\ target_states = {"READY"}) =>
           /\ outcome = Reached("READY")
           /\ log = <<"COMMISSIONING", "READY">>

\* C10 witness: the scenario's reads, ended by the return of READY.
C10_Witness ==
    /\ reads = <<"COMMISSIONING", "COMMISSIONING", "READY">>
    /\ target_states = {"READY"}
    /\ outcome = Reached("READY")

----------------------------------------------------------------------------
(* Properties of the per-machine pipeline, checked under SpecPipeline *)

\* The lifecycle order of the stages.
LifecycleOrder ==
    <<"locate", "set_hostname", "set_power", "set_bios", "set_boot_order",
      "configure_storage", "commission", "set_network_bond", "deploy",
      "release", "delete">>
Rank(stage) == CHOOSE i \in 1..Len(LifecycleOrder) : LifecycleOrder[i] = stage

Requests == 1..Len(trace)
Issued(req) == \E i \in Requests : trace[i] = req

\* C11: the remote requests of one machine follow the lifecycle order
\* (locate, set hostname, power, BIOS, boot order, storage, commission,
\* bonds, deploy, release, delete) whatever the order of the action list,
\* and every request after stage 1 belongs to a requested stage: the
\* sequence of requests does not depend on how the list is arranged.
C11_LifecycleOrder ==
    /\ \A i, j \in Requests :
          i < j => Rank(trace[i].stage) <= Rank(trace[j].stage)
    /\ \A i \in Requests :
          trace[i].stage # "locate" => InList(actions, trace[i].stage)

\* A list that names deploy before commission has produced the commission
\* request before the deploy request.
C11_Witness ==
    /\ actions = <<"deploy", "commission", "create_machine">>
    /\ \E i, j \in Requests :
          /\ i < j
          /\ trace[i].stage = "commission"
          /\ trace[j].stage = "deploy"

\* C12: a stage whose action is not requested performs no remote mutation;
\* in particular the remote hostname is updated only when set_hostname is
\* in the action list.
C12_HostnameOnlyWhenRequested ==
    \A i \in Requests :
       trace[i].op = "update_hostname" => InList(actions, "set_hostname")

\* C13: when the lookup matches no machine and create_machine is
\* requested, a create request is issued and the pipeline goes on with the
\* created machine's system_id.
C13_CreatesWhenRequested ==
    (ppc = "done" /\ no_match /\ InList(actions, "create_machine"))
        => /\ \E i \in Requests : trace[i].op = "create_machine"
           /\ presult # Returned("None")

\* C14: for a machine that is found, the action list [delete] issues the
\* delete request and, once it is accepted, returns None; the action list
\* [set_power] returns the machine's system_id and issues no delete.
C14_DeleteAbsentPowerKeepsId ==
    /\ (actions = <<"delete">> /\ system_id # "None" /\ ppc = "done")
          => /\ \E i \in Requests : trace[i].op = "delete_machine"
             /\ Issued(Call("delete", "delete_machine", TRUE))
                   => presult = Returned("None")
    /\ (actions = <<"set_power">> /\ presult.kind = "returned"
           /\ system_id # "None")
          => /\ presult = Returned(RemoteSystemId)
             /\ ~\E i \in Requests : trace[i].op = "delete_machine"

C14_Witness ==
    /\ actions = <<"delete">>
    /\ system_id = RemoteSystemId
    /\ Issued(Call("delete", "delete_machine", TRUE))
    /\ ppc = "done"

\* C15: when stage 1 does not complete (the lookup raises, matches no
\* machine or yields no system_id) the pipeline returns None and no later
\* stage is entered or issues a request.
C15_Stage1FailureIsFatal ==
    (ppc = "done" /\ system_id = "None")
        => /\ presult = Returned("None")
           /\ ran = {"locate"}
           /\ \A i \in Requests : trace[i].stage = "locate"

C15_Witness ==
    /\ ppc = "done"
    /\ system_id = "None"
    /\ Issued(Call("locate", "list_machines", FALSE))
    /\ InList(actions, "commission")

\* C16: a BIOS update the service rejects is non-fatal: the pipeline does
\* not end in the BIOS stage.
BiosRejected == Issued(Call("set_bios", "update_machine", FALSE))
C16_BiosRejectionNonFatal == BiosRejected => failed_stage # "set_bios"

\* C17: when every boot-device endpoint is rejected the boot-order stage
\* does not raise: control reaches the next stage block, and a pipeline
\* that then runs to its end has entered every later requested stage and
\* returns the system_id (None after a delete).
StagesAfterBoot == {"configure_storage", "commission", "set_network_bond",
                    "deploy", "release", "delete"}
BootRejected == Issued(Call("set_boot_order", "op_set_boot_device", FALSE))
C17_BootOrderBestEffort ==
    BootRejected
        => /\ failed_stage # "set_boot_order"
           /\ pidx > Rank("set_boot_order")
           /\ presult.kind = "returned"
                 => /\ \A i \in 1..Len(actions) :
                          actions[i] \in StagesAfterBoot => actions[i] \in ran
                    /\ presult.value =
                          IF InList(actions, "delete") THEN "None"
                          ELSE RemoteSystemId

C17_Witness ==
    /\ BootRejected
    /\ presult = Returned(RemoteSystemId)
    /\ "commission" \in ran

\* C18: once set hostname, power, storage, commission, bonds, deploy or
\* release has failed, no request of a later stage is issued; after a
\* storage failure there is no commission, bond, deploy, release or delete
\* request.
FatalStages == {"set_hostname", "set_power", "configure_storage",
                "commission", "set_network_bond", "deploy", "release"}
C18_ShortCircuit ==
    /\ \A i, j \in Requests :
          (i < j /\ ~trace[i].ok /\ trace[i].stage \in FatalStages)
              => Rank(trace[j].stage) <= Rank(trace[i].stage)
    /\ failed_stage \in FatalStages
          => /\ ppc = "done"
             /\ \A i \in Requests :
                   Rank(trace[i].stage) <= Rank(failed_stage)

C18_Witness ==
    /\ failed_stage = "configure_storage"
    /\ Issued(Call("configure_storage", "update_machine", FALSE))
    /\ InList(actions, "commission")
    /\ ppc = "done"

\* C19: the per-machine pipeline never raises.
C19_NeverRaises == presult.kind # "raised"

\* C20: commission, deploy and release issue their request before the
\* first state read and read nothing when the request is rejected; with
\* waiting, the stage succeeds only on a read in its target set and fails
\* as soon as a read is in its fatal set.
WaitStages == {"commission", "deploy", "release"}
ClaimTargets(stage) ==
    CASE stage = "commission" -> {"READY", "DEPLOYED"}
      [] stage = "deploy" -> {"DEPLOYED"}
      [] stage = "release" -> {"READY"}
ClaimFatal(stage) ==
    CASE stage = "commission" -> {"FAILED_COMMISSIONING", "FAILED"}
      [] stage = "deploy" -> {"FAILED_DEPLOYMENT", "FAILED"}
      [] stage = "release" -> {"FAILED_RELEASING", "FAILED_DISK_ERASING",
                               "FAILED"}
C20_FireThenWait ==
    /\ wpc # "idle"
          => /\ ppc = "wait"
             /\ CurStage \in WaitStages
             /\ trace # <<>>
             /\ trace[Len(trace)] = Call(CurStage, CurStage, TRUE)
    /\ \A s \in WaitStages :
          Issued(Call(s, s, FALSE))
              => /\ wpc = "idle"
                 /\ \A i \in 1..Len(waits) : waits[i].stage # s
    /\ wpc = "loop"
          => \A i \in 1..Len(reads) :
                reads[i] \notin ClaimTargets(CurStage) \cup ClaimFatal(CurStage)
    /\ (wpc = "done" /\ reads # <<>>)
          => /\ outcome.kind = "Reached"
                   <=> LastRead \in ClaimTargets(CurStage)
             /\ outcome.kind = "ErrorState"
                   <=> LastRead \in ClaimFatal(CurStage)
    /\ \A i \in 1..Len(waits) :
          /\ waits[i].outcome.kind = "Reached"
                => waits[i].outcome.state \in ClaimTargets(waits[i].stage)
          /\ (waits[i].outcome.kind # "Reached" /\ i = Len(waits))
                => failed_stage = waits[i].stage

\* A deploy whose second read returned DEPLOYED.
C20_Witness ==
    \E i \in 1..Len(waits) :
       /\ waits[i].stage = "deploy"
       /\ Len(waits[i].reads) = 2
       /\ waits[i].outcome = Reached("DEPLOYED")

\* C21: when a bond of the bond stage fails, the stage fails and the
\* pipeline ends there, before any request of a later stage, and the only
\* requests the stage has issued are those that configure bonds: nothing
\* deletes or rolls back the bonds already created.
BondFailed == Issued(Call("set_network_bond", "configure_bond", FALSE))
C21_BondFailureAbortsNoRollback ==
    BondFailed
        => /\ ppc = "done"
           /\ failed_stage = "set_network_bond"
           /\ \A i \in Requests :
                 /\ Rank(trace[i].stage) <= Rank("set_network_bond")
                 /\ trace[i].stage = "set_network_bond"
                       => trace[i].op = "configure_bond"

\* A bond was created, the next one failed, and later stages were requested.
C21_Witness ==
    /\ \E i \in Requests :
          /\ i < Len(trace)
          /\ trace[i] = Call("set_network_bond", "configure_bond", TRUE)
          /\ trace[i + 1] = Call("set_network_bond", "configure_bond", FALSE)
    /\ InList(actions, "release")
    /\ ppc = "done"

----------------------------------------------------------------------------
(* Properties of the bond builder, checked under SpecBond *)

\* The matching loop has run over the whole interface list.
MatchingComplete ==
    \/ bpc \in {"create", "subnet", "vlans", "returned"}
    \/ bpc = "raised" /\ berror # "get_interfaces"

ExampleIfaces ==
    << Iface("eth0", "physical", 10, <<>>),
       Iface("eth1", "physical", 10, <<>>),
       Iface("eth2", "physical", 20, <<>>),
       Iface("bond0", "bond", 10, <<>>) >>

Positions == 1..Len(interfaces)

\* C22: an interface of type bond or bridge is never among the matched
\* names, and for [eth0 physical 10, eth1 physical 10, eth2 physical 20,
\* bond0 bond 10] with target VLAN 10 the match is exactly eth0, eth1.
C22_BondsAndBridgesExcluded ==
    /\ \A i \in Positions :
          interfaces[i].type \in {"bond", "bridge"}
              => ~SeqHas(matching_interfaces, interfaces[i].name)
    /\ (interfaces = ExampleIfaces /\ MatchingComplete)
          => matching_interfaces = <<"eth0", "eth1">>

C22_Witness ==
    /\ interfaces = ExampleIfaces
    /\ bpc = "create"
    /\ interface_ids = <<1, 2>>

\* C23: every matched interface is of type physical.
C23_OnlyPhysicalSelected ==
    \A i \in Positions :
       interfaces[i].type # "physical"
           => ~SeqHas(matching_interfaces, interfaces[i].name)

\* C24: a named interface that is neither bond nor bridge is matched
\* exactly when its own VLAN or one of its links' subnet VLANs is the
\* target; the links of an interface whose own VLAN matches are not looked
\* at; the matched names are in input order, each once.
Eligible(iface) == iface.name # "None" /\ iface.type \notin {"bond", "bridge"}
ShouldMatch(iface) ==
    /\ Eligible(iface)
    /\ \/ iface.vlan = TargetVid
       \/ \E k \in 1..Len(iface.links) : iface.links[k] = TargetVid
RECURSIVE FirstOccurrences(_)
FirstOccurrences(q) ==
    IF q = <<>> THEN <<>>
    ELSE LET front == FirstOccurrences(SubSeq(q, 1, Len(q) - 1))
             x == q[Len(q)]
         IN  IF \E i \in 1..Len(front) : front[i] = x THEN front
             ELSE Append(front, x)
NamesOf(q) == [i \in 1..Len(q) |-> q[i].name]
Scanned ==
    IF bpc = "match" THEN SubSeq(interfaces, 1, match_i - 1)
    ELSE IF bpc \in {"idle", "get"} \/ berror = "get_interfaces" THEN <<>>
    ELSE interfaces
C24_DirectThenLinks ==
    /\ matching_interfaces =
          FirstOccurrences(NamesOf(SelectSeq(Scanned, ShouldMatch)))
    /\ \A i \in links_examined : interfaces[i].vlan # TargetVid
    /\ \A i, j \in 1..Len(matching_interfaces) :
          i # j => matching_interfaces[i] # matching_interfaces[j]

\* Matched through a link, matched directly, and both seen a second time.
C24_Witness ==
    /\ MatchingComplete
    /\ NamesOf(interfaces) = <<"eth3", "eth0", "eth3", "eth0">>
    /\ matching_interfaces = <<"eth3", "eth0">>
    /\ links_examined = {1, 3}

\* C25: with fewer than two matched interfaces the call fails with the
\* "not enough interfaces" error and sends no create_bond request; every
\* create_bond request carries at least two pairwise different parent ids.
BondRequests == 1..Len(breqs)
C25_AtLeastTwoParents ==
    /\ (MatchingComplete /\ Len(matching_interfaces) < 2)
          => /\ bpc = "raised"
             /\ berror = "ValueError: not enough interfaces"
             /\ \A i \in BondRequests : breqs[i].op # "create_bond"
    /\ \A i \in BondRequests :
          breqs[i].op = "create_bond"
              => /\ Len(breqs[i].arg) >= 2
                 /\ \A a, b \in 1..Len(breqs[i].arg) :
                       a # b => breqs[i].arg[a] # breqs[i].arg[b]

C25_Witness ==
    /\ MatchingComplete
    /\ Len(matching_interfaces) = 1
    /\ Len(interfaces) > 1
    /\ bpc = "raised"

\* C26: the VLAN interfaces are requested in the listed order after the
\* bond was created; a failure of the first request ends the call with
\* that failure; a failure of a later one does not, the remaining ids are
\* still requested and the call returns.
VlanRequests == SelectSeq(breqs, LAMBDA r : r.op = "create_vlan")
C26_FirstVlanFatalOthersSkipped ==
    /\ Len(VlanRequests) <= Len(vlan_ids)
    /\ \A k \in 1..Len(VlanRequests) : VlanRequests[k].arg = <<vlan_ids[k]>>
    /\ VlanRequests # <<>>
          => \E i \in BondRequests :
                /\ breqs[i].op = "create_bond" /\ breqs[i].ok
                /\ \A j \in BondRequests :
                      breqs[j].op = "create_vlan" => i < j
    /\ (VlanRequests # <<>> /\ ~VlanRequests[1].ok)
          => /\ bpc = "raised"
             /\ berror = "create_vlan"
             /\ Len(VlanRequests) = 1
    /\ (VlanRequests # <<>> /\ VlanRequests[1].ok)
          => /\ bpc \in {"vlans", "returned"}
             /\ bpc = "returned" => Len(VlanRequests) = Len(vlan_ids)
    /\ created_vlan_interfaces =
          [k \in 1..Len(SelectSeq(VlanRequests, LAMBDA r : r.ok)) |->
              SelectSeq(VlanRequests, LAMBDA r : r.ok)[k].arg[1]]

\* The second of three VLAN interfaces failed, the third was created.
C26_Witness ==
    /\ bpc = "returned"
    /\ Len(VlanRequests) = 3
    /\ ~VlanRequests[2].ok
    /\ created_vlan_interfaces = <<10, 30>>

----------------------------------------------------------------------------
(* Properties of the workflow engine, checked under SpecWorkflow *)

Succeeded == {m \in Fleet : mstat[m] = "id"}
Collected == {system_ids[i] : i \in 1..Len(system_ids)}

\* C27: a machine whose pipeline raises does not end the batch: when
\* execute_workflow returns, every machine's pipeline has run to its end
\* and the returned list holds exactly the system_ids of the machines whose
\* pipeline returned one, each once; no exception of a machine leaves
\* execute_workflow.
C27_FailureIsolation ==
    /\ wfpc # "raised"
    /\ wfpc = "returned"
          => /\ \A m \in Fleet : Ended(m)
             /\ Collected = Succeeded
             /\ Len(system_ids) = Cardinality(Succeeded)

\* Four machines in concurrent mode, the third raised, three succeeded.
C27_Witness ==
    /\ Parallel
    /\ nmach = 4
    /\ wfpc = "returned"
    /\ mstat[3] = "raised"
    /\ Succeeded = {1, 2, 4}
    /\ Len(system_ids) = 3

\* C28: the returned list is determined by the machines' results, not by
\* the order in which they completed: it lists the system_ids in input
\* order.
C28_AggregateInInputOrder ==
    wfpc = "returned"
        => \A i, j \in 1..Len(system_ids) :
              i < j => system_ids[i] < system_ids[j]

C30_ExitsAtNextPoll == \A m \in Fleet : polls_after[m] <= 1

\* The list the caller holds when execute_workflow has come to its end,
\* as main prints it (cli.py 275-296).
Reported == SummaryOf(wfresult)

\* C31: when the workflow is interrupted after some machines have
\* completed, the system_ids collected before the interrupt are still given
\* to the caller and reported.
C31_PartialResultsReported ==
    (wfpc = "interrupted" /\ system_ids # <<>>)
        => Reported = <<"summary", system_ids>>

Occurrences(m) ==
    Cardinality({i \in 1..Len(system_ids) : system_ids[i] = m})

\* C32: in both modes no machine's pipeline is begun twice, no machine is
\* logged or listed twice and the list is never longer than the fleet; when
\* execute_workflow returns, every configured machine has been run once
\* and logged once, as a success, with its system_id once in the list, or
\* as a failure, with no entry in the list.
C32_EachMachineOnce ==
    /\ Len(system_ids) <= nmach
    /\ \A m \in Fleet :
          /\ started[m] <= 1
          /\ Len(tally[m]) <= 1
          /\ Occurrences(m) <= 1
    /\ wfpc = "returned" =>
          \A m \in Fleet :
             /\ started[m] = 1
             /\ \/ tally[m] = <<"success">> /\ Occurrences(m) = 1
                \/ tally[m] = <<"failure">> /\ Occurrences(m) = 0

\* A concurrent run of four machines has returned with two successes and
\* two failures.
C32_Witness ==
    /\ Parallel /\ nmach = 4 /\ wfpc = "returned"
    /\ tally = <<<<"success">>, <<"failure">>, <<"failure">>, <<"success">>>>
    /\ mstat[2] = "raised" /\ mstat[3] = "None"
    /\ system_ids = <<4, 1>>

\* parallel is off, or there is one machine only.
SequentialMode == ~cfg_parallel \/ nmach = 1

\* C33: in sequential mode at most one pipeline runs at a time, and only a
\* running pipeline issues remote calls; a machine's pipeline is begun only
\* when the pipeline of every machine before it has returned or raised and
\* has been logged; and the pipeline of the next machine is begun whenever
\* a machine's pipeline has returned or raised.
C33_OneAtATimeInOrder ==
    SequentialMode =>
        /\ Cardinality(InFlight) <= 1
        /\ \A m \in Fleet :
              /\ Started(m) =>
                    \A k \in 1..(m - 1) :
                        mstat[k] \in {"id", "None", "deleted", "raised"}
                            /\ Len(tally[k]) = 1
              /\ ~Started(m) => started[m] = 0
              /\ (m < nmach /\ mstat[m] \in {"id", "None", "deleted", "raised"})
                    => Started(m + 1)

\* The first of three machines raised, the second is running, the third
\* has not begun.
C33_Witness ==
    /\ SequentialMode
    /\ nmach = 3
    /\ mstat = <<"raised", "running", "pending">>
    /\ started = <<1, 1, 0>>

\* C34: with more than one machine and parallel not switched off, every
\* submitted pipeline gets a thread of its own at once (none waits in the
\* pool's queue behind a running one), and no result is collected before
\* every machine's pipeline has been dispatched.
C34_OneUnitPerMachine ==
    (cfg_entry # "False" /\ nmach > 1) =>
        /\ \A m \in Fleet : mstat[m] # "queued"
        /\ \A m \in Fleet : mstat[m] = "pending" => started[m] = 0
        /\ (\E m \in Fleet : tally[m] # <<>>) => \A m \in Fleet : Started(m)

\* No 'parallel' entry in cfg, four machines: all four pipelines are in
\* flight at the same time and nothing has been collected yet.
C34_Witness ==
    /\ cfg_entry = "absent"
    /\ nmach = 4
    /\ InFlight = Fleet
    /\ \A m \in Fleet : tally[m] = <<>> /\ started[m] = 1

----------------------------------------------------------------------------
(* Further properties of the per-machine pipeline, under SpecPipeline *)

LaterCalls == {i \in 1..Len(trace) : trace[i].stage # "locate"}

\* C35: once stage 1 has set the local system_id it is never assigned
\* again; every request of a later stage names that system_id; and a result
\* other than None is that system_id.
C35_SystemIdFixed ==
    /\ [](/\ \A i \in LaterCalls :
               system_id # "None" /\ trace[i].sid = system_id
          /\ (presult.kind = "returned" /\ presult.value # "None")
                => presult.value = system_id)
    /\ [][system_id # "None" => system_id' = system_id]_vars

\* A pipeline has returned the system_id after requests of at least three
\* later stages.
C35_Witness ==
    /\ ppc = "done"
    /\ presult = Returned(system_id)
    /\ system_id # "None"
    /\ Cardinality({trace[i].stage : i \in LaterCalls}) >= 3

----------------------------------------------------------------------------
(* Further properties of wait_for_state *)

\* The least number of sleeps that bring the clock to timeout.
SleepsToTimeout == (timeout + poll_interval - 1) \div poll_interval

\* Every iteration but the last sleeps poll_interval; elapsed is brought
\* up to the clock by every read that returns a state, so it lags behind by
\* a run of failed reads at most.
MostReads ==
    IF timeout <= 0 THEN 0
    ELSE SleepsToTimeout + max_consecutive_errors - 1

\* C36, checked under SpecPollFair: wait_for_state comes to an end, with a
\* state reached, a RuntimeError or a TimeoutError, and the number of calls
\* of check_fn is bounded by timeout, poll_interval and the cut of a run of
\* failures at max_consecutive_errors.
C36_AlwaysTerminates ==
    /\ <>(wpc = "done")
    /\ [](Len(reads) <= MostReads)
    /\ [](wpc = "done" =>
            outcome.kind \in {"Reached", "ErrorState", "CheckRuntimeError",
                              "TooManyFailures", "TimedOut"})

\* With timeout 3 and poll interval 1 the call ended after seven reads:
\* two that were not final, four failures and one more read.
C36_Witness ==
    /\ wpc = "done"
    /\ timeout = 3 /\ poll_interval = 1
    /\ Len(reads) = 7
    /\ consecutive_errors = 0

\* C37: with timeout <= 0 check_fn is never called and the call ends with
\* TimeoutError and last state None, whatever state the machine is in.
C37_NoReadWithoutTime ==
    timeout <= 0 =>
        /\ reads = <<>>
        /\ wpc = "done" => outcome = TimedOut("None")

\* A call with a negative timeout has ended.
C37_Witness ==
    /\ timeout < 0
    /\ wpc = "done"
    /\ outcome = TimedOut("None")
    /\ reads = <<>>

\* C38: when the last read returned a state that is both a target state and
\* an error state, the call returns that state and raises nothing.
C38_TargetBeforeError ==
    (wpc = "done" /\ reads # <<>>
        /\ LastRead \in target_states \cap error_states)
        => outcome = Reached(LastRead)

\* FAILED_COMMISSIONING is in both sets and was returned, after a read
\* that was not final.
C38_Witness ==
    /\ wpc = "done"
    /\ "FAILED_COMMISSIONING" \in target_states \cap error_states
    /\ Len(reads) = 2
    /\ outcome = Reached("FAILED_COMMISSIONING")

----------------------------------------------------------------------------
(* The bond stage of the pipeline, under SpecPipeline *)

BondStageRan == "set_network_bond" \in ran /\ bonds_cfg > 0
BondStageRequests == {i \in Requests : trace[i].stage = "set_network_bond"}

\* C39: the bond stage tries every configured bond, in configuration order,
\* whatever happened to the bonds before it, and issues one request for
\* each; if one or more of them failed the pipeline ends there with one
\* exception, and no request of deploy, release or delete follows.
C39_AllBondsThenOneError ==
    BondStageRan =>
        /\ Len(bond_tries) = bonds_cfg
        /\ \A i \in 1..Len(bond_tries) : bond_tries[i].bond = i
        /\ Cardinality(BondStageRequests) = bonds_cfg
        /\ (\E i \in 1..Len(bond_tries) : ~bond_tries[i].ok)
              => /\ ppc = "done"
                 /\ presult = Raised
                 /\ failed_stage = "set_network_bond"
                 /\ \A i \in Requests :
                       trace[i].stage \notin {"deploy", "release", "delete"}

\* Of two bonds the first failed and the second was configured; deploy was
\* the next action.
C39_Witness ==
    /\ bond_tries = <<[bond |-> 1, ok |-> FALSE], [bond |-> 2, ok |-> TRUE]>>
    /\ actions = <<"set_network_bond", "deploy">>
    /\ presult = Raised

----------------------------------------------------------------------------
(* The returned list and the delete action, under SpecWorkflow *)

\* The machine was resolved and its pipeline ran to its last stage.
RanToEnd(m) == mstat[m] \in {"id", "deleted"}

\* C40: when execute_workflow returns, the list holds a machine's system_id
\* exactly if its pipeline ran to its end and delete is not among the
\* actions; a machine that was deleted is logged as a failure and left out
\* of the list like one that was not resolved or whose pipeline raised.
C40_ListedIffKeptAndReturned ==
    wfpc = "returned" =>
        \A m \in Fleet :
           /\ Occurrences(m) = 1 <=> (RanToEnd(m) /\ ~cfg_delete)
           /\ mstat[m] \in {"deleted", "None", "raised"}
                 => Occurrences(m) = 0 /\ tally[m] = <<"failure">>

\* With delete among the actions three machines ended as deleted, not
\* resolved and raised: the returned list is empty.
C40_Witness ==
    /\ wfpc = "returned"
    /\ cfg_delete
    /\ mstat = <<"deleted", "None", "raised">>
    /\ wfresult = WorkflowReturned(<<>>)

====
